---- MODULE Spec2Model ----
(***************************************************************************)
(* Model of the VC Mini Valve Controller serial driver                     *)
(* (src/vc_mini_valve_controller/__init__.py, class Microvalve).           *)
(*                                                                         *)
(* Text is modelled as a sequence of one-character strings, so that        *)
(* formatting (f-strings), split/join and strip are computed and not       *)
(* assumed.  A method is modelled as the sequence of transport steps it    *)
(* performs (write, read_line, assignment, raise); the session executes    *)
(* the steps one at a time, each port.read() being one step, while the     *)
(* device and the serial transport act in between.                         *)
(***************************************************************************)
EXTENDS Integers, Sequences, FiniteSets, TLC

VARIABLES
    buffer,           \* self.buffer: received text not yet returned as a line
    current_address,  \* self.current_address
    rx,               \* the port: bytes the device has sent, not yet read
    todo,             \* the steps left of the call in progress (<<>>: no call)
    line,             \* the value read_line returned to the call in progress
    op,               \* the call in progress, or the last one made
    result,           \* "none", "running", "ok" (returned) or "error" (raised)
    addr0,            \* current_address when the call was made
    prevScope,        \* target unit of the call made just before, -1 if none
    last_addr,        \* n of the last addressing command "n*" written, -1 if none
    log,              \* the transport events observed: writes and lines read
    sent,             \* what the device has sent so far (observed, where bounded)
    step              \* test_fire: the number of statements made so far

vars == <<buffer, current_address, rx, todo, line, op, result, addr0,
          prevScope, last_addr, log, sent, step>>

----------------------------------------------------------------------------
(* Bounds of the model *)

\* the most bytes one port.read() returns in Spec and SpecFire
MaxChunk == 3
\* the most unread bytes in the port when the device sends a burst
MaxBacklog == 0
\* the most lines counted between two writes of one call
MaxReads == 3
\* the length of the received streams of SpecRead
MaxLen == 5

----------------------------------------------------------------------------
(* Program constants *)

ADDRESS_VALVE == 0
ADDRESS_MASTER == 8

NL == "\n"
CR == "\r"
SP == " "
\* the bytes 0x12 (^R) and 0x1b (escape)
DC2 == "0x12"
ESC == "0x1b"

BANNER == <<"T","E","R","M","I","N","A","L","-","M","o","d","e">>

DigitChars == <<"0","1","2","3","4","5","6","7","8","9">>

----------------------------------------------------------------------------
(* Python text operations *)

Contains(s, c) == \E i \in 1..Len(s) : s[i] = c

IndexOf(s, c) == CHOOSE i \in 1..Len(s) : s[i] = c /\ \A j \in 1..(i-1) : s[j] # c

\* f'{n}': the decimal digits of an integer, "-" first when negative
RECURSIVE ToDec(_)
ToDec(n) ==
    IF n < 0 THEN <<"-">> \o ToDec(-n)
    ELSE IF n < 10 THEN <<DigitChars[n + 1]>>
    ELSE ToDec(n \div 10) \o <<DigitChars[(n % 10) + 1]>>

\* s.split(c): the pieces between the separators, at least one piece
RECURSIVE Split(_, _)
Split(s, c) ==
    IF ~Contains(s, c) THEN <<s>>
    ELSE LET i == IndexOf(s, c)
         IN  <<SubSeq(s, 1, i - 1)>> \o Split(SubSeq(s, i + 1, Len(s)), c)

\* c.join(pieces)
RECURSIVE Join(_, _)
Join(pieces, c) ==
    IF pieces = <<>> THEN <<>>
    ELSE IF Len(pieces) = 1 THEN pieces[1]
    ELSE pieces[1] \o <<c>> \o Join(Tail(pieces), c)

IsSpace(c) == c \in {SP, NL, CR, "\t", "\f"}

IsDigit(c) == \E d \in 1..10 : DigitChars[d] = c

\* s.strip(): whitespace removed at both ends
RECURSIVE LStrip(_)
LStrip(s) == IF s # <<>> /\ IsSpace(s[1]) THEN LStrip(Tail(s)) ELSE s

RECURSIVE RStrip(_)
RStrip(s) ==
    IF s # <<>> /\ IsSpace(s[Len(s)]) THEN RStrip(SubSeq(s, 1, Len(s) - 1)) ELSE s

Strip(s) == RStrip(LStrip(s))

\* whether int(s) returns: optional blanks, an optional sign, then digits
IntParses(s) ==
    LET t == Strip(s)
        u == IF t # <<>> /\ t[1] \in {"+", "-"} THEN Tail(t) ELSE t
    IN  u # <<>> /\ \A i \in 1..Len(u) : IsDigit(u[i])

----------------------------------------------------------------------------
(* Steps of a call *)

Ins(i) == [i |-> i, data |-> <<>>, a |-> 0]

PortWrite(data) == [i |-> "write", data |-> data, a |-> 0]

Raise == <<Ins("raise")>>

----------------------------------------------------------------------------
(* The methods of Microvalve, each as the steps it performs.  The tests on  *)
(* current_address and on the arguments are those of the source, in the     *)
(* source's order; they are evaluated when the call is made.                *)

read_line == <<Ins("read_line")>>

\* command, returning without reading the reply
command_unread(cmd) == <<PortWrite(cmd)>>

command(cmd) == <<PortWrite(cmd)>> \o read_line

\* reset, returning on the first line it reads
reset_once == <<PortWrite(<<DC2, ESC>>)>> \o read_line

reset == <<PortWrite(<<DC2, ESC>>)>> \o read_line \o <<Ins("until_banner")>>

\* init, without the load of bank 0
init_unloaded == reset \o command(<<"0", "*">>)

\* init, recording the address it selects
init_tracking ==
    reset \o command(<<"0", "*">>)
    \o <<[i |-> "assign", data |-> <<>>, a |-> 0]>>
    \o command(<<"0", "n">>)

init == reset \o command(<<"0", "*">>) \o command(<<"0", "n">>)

\* set_address, accepting the address 9
set_address_wide(address) ==
    IF address < 0 \/ address > 9 THEN Raise
    ELSE <<PortWrite(ToDec(address) \o <<"*">>)>> \o read_line
         \o <<[i |-> "assign", data |-> <<>>, a |-> address]>>

set_address(address) ==
    IF address < 0 \/ address > 8 THEN Raise
    ELSE command(ToDec(address) \o <<"*">>)
         \o <<[i |-> "assign", data |-> <<>>, a |-> address]>>

get_address == command(<<"=">>) \o <<Ins("int")>>

\* the addressing step, made whatever current_address is
Addressed_always(target) == set_address(target)

\* if not self.current_address == ADDRESS: self.set_address(ADDRESS)
Addressed(target) ==
    IF ~(current_address = target) THEN set_address(target) ELSE <<>>

set_plc_standard_mode == Addressed(ADDRESS_MASTER) \o command(<<"0", "0", "F">>)

set_plc_last_state_restore_mode ==
    Addressed(ADDRESS_MASTER) \o command(<<"0", "1", "F">>)

\* set_baud_rate, with the commands of 57600 and 115200 exchanged
set_baud_rate_swapped(baud_rate) ==
    Addressed(ADDRESS_MASTER)
    \o (IF baud_rate = 9600 THEN command(<<"0", "%">>)
        ELSE IF baud_rate = 19200 THEN command(<<"1", "%">>)
        ELSE IF baud_rate = 38400 THEN command(<<"2", "%">>)
        ELSE IF baud_rate = 57600 THEN command(<<"4", "%">>)
        ELSE IF baud_rate = 115200 THEN command(<<"3", "%">>)
        ELSE IF baud_rate = 230400 THEN command(<<"5", "%">>)
        ELSE Raise)

set_baud_rate(baud_rate) ==
    Addressed(ADDRESS_MASTER)
    \o (IF baud_rate = 9600 THEN command(<<"0", "%">>)
        ELSE IF baud_rate = 19200 THEN command(<<"1", "%">>)
        ELSE IF baud_rate = 38400 THEN command(<<"2", "%">>)
        ELSE IF baud_rate = 57600 THEN command(<<"3", "%">>)
        ELSE IF baud_rate = 115200 THEN command(<<"4", "%">>)
        ELSE IF baud_rate = 230400 THEN command(<<"5", "%">>)
        ELSE Raise)

set_shot_trigger_mode == Addressed(ADDRESS_VALVE) \o command(<<"X">>)

set_continuous_trigger_mode == Addressed(ADDRESS_VALVE) \o command(<<"T">>)

set_series_trigger_mode == Addressed(ADDRESS_VALVE) \o command(<<"P">>)

set_endless_trigger_mode == Addressed(ADDRESS_VALVE) \o command(<<"L">>)

stop_triggering == Addressed(ADDRESS_VALVE) \o command(<<"S">>)

\* Python truth of an argument (False is 0, True is 1)
Truthy(v) == v # 0

single_shot(v1, v2) ==
    Addressed(ADDRESS_VALVE)
    \o (IF Truthy(v1) /\ Truthy(v2) THEN command(<<"V">>)
        ELSE IF Truthy(v1) THEN command(<<"Y">>)
        ELSE command(<<"Z">>))

\* series_shot, looking at v2 when v1 is false
series_shot_either(v1, v2) ==
    Addressed(ADDRESS_VALVE)
    \o (IF Truthy(v1) /\ Truthy(v2) THEN command(<<"U">>)
        ELSE IF Truthy(v1) \/ Truthy(v2) THEN command(<<"Q">>)
        ELSE command(<<"R">>))

series_shot(v1, v2) ==
    Addressed(ADDRESS_VALVE)
    \o (IF Truthy(v1) /\ Truthy(v2) THEN command(<<"U">>)
        ELSE IF Truthy(v1) THEN command(<<"Q">>)
        ELSE command(<<"R">>))

series_shot_stop == Addressed(ADDRESS_VALVE) \o command(<<"S">>)

\* load_parameters, with the banks of valve 1 one too low
load_parameters_low(valve, set_index) ==
    IF ~(valve = 0 \/ valve = 1) THEN Raise
    ELSE IF ~(0 <= set_index /\ set_index <= 3) THEN Raise
    ELSE Addressed(ADDRESS_VALVE)
         \o (IF valve = 0 THEN command(ToDec(set_index) \o <<"n">>)
             ELSE command(ToDec(set_index + 3) \o <<"n">>))

load_parameters(valve, set_index) ==
    IF ~(valve = 0 \/ valve = 1) THEN Raise
    ELSE IF ~(0 <= set_index /\ set_index <= 3) THEN Raise
    ELSE Addressed(ADDRESS_VALVE)
         \o (IF valve = 0 THEN command(ToDec(set_index) \o <<"n">>)
             ELSE command(ToDec(set_index + 4) \o <<"n">>))

store_parameters(valve, set_index) ==
    IF ~(valve = 0 \/ valve = 1) THEN Raise
    ELSE Addressed(ADDRESS_VALVE)
         \o (IF valve = 0 THEN command(ToDec(set_index) \o <<"N">>)
             ELSE command(ToDec(set_index + 4) \o <<"N">>))

\* set_peak_time, checking its argument after the addressing step
set_peak_time_late(value) ==
    Addressed(ADDRESS_VALVE)
    \o (IF ~(10 <= value /\ value <= 65535) THEN Raise
        ELSE command(ToDec(value) \o <<"A">>))

set_peak_time(value) ==
    IF ~(10 <= value /\ value <= 65535) THEN Raise
    ELSE Addressed(ADDRESS_VALVE) \o command(ToDec(value) \o <<"A">>)

\* set_open_time, with a limit one digit short
set_open_time_short(value) ==
    IF ~(10 <= value /\ value <= 999999) THEN Raise
    ELSE Addressed(ADDRESS_VALVE) \o command(ToDec(value) \o <<"B">>)

set_open_time(value) ==
    IF ~(10 <= value /\ value <= 9999999) THEN Raise
    ELSE Addressed(ADDRESS_VALVE) \o command(ToDec(value) \o <<"B">>)

set_cycle_time(value) ==
    IF ~(10 <= value /\ value <= 9999999) THEN Raise
    ELSE Addressed(ADDRESS_VALVE) \o command(ToDec(value) \o <<"C">>)

set_peak_current(value) ==
    IF ~(0 <= value /\ value <= 15) THEN Raise
    ELSE Addressed(ADDRESS_VALVE) \o command(ToDec(value) \o <<"D">>)

set_shot_count(value) ==
    IF ~(0 <= value /\ value <= 65535) THEN Raise
    ELSE Addressed(ADDRESS_VALVE) \o command(ToDec(value) \o <<"G">>)

----------------------------------------------------------------------------
(* Calls *)

MkOp(name, a, b) == [name |-> name, a |-> a, b |-> b]

NoOp == MkOp("none", 0, 0)

MasterOps == {"set_plc_standard_mode", "set_plc_last_state_restore_mode",
              "set_baud_rate"}

TriggerOps == {"set_shot_trigger_mode", "set_continuous_trigger_mode",
               "set_series_trigger_mode", "set_endless_trigger_mode",
               "stop_triggering", "series_shot_stop"}

ShotOps == {"single_shot", "series_shot"}

BankOps == {"load_parameters", "store_parameters"}

SetterOps == {"set_peak_time", "set_open_time", "set_cycle_time",
              "set_peak_current", "set_shot_count"}

ValveOps == TriggerOps \cup ShotOps \cup BankOps \cup SetterOps

\* the unit a method addresses before its command, -1 when it addresses none
Target(o) ==
    IF o.name \in MasterOps THEN ADDRESS_MASTER
    ELSE IF o.name \in ValveOps THEN ADDRESS_VALVE
    ELSE -1

\* the texts command is called with directly: an addressing command of a
\* unit other than the valve and the master, the address query, and a
\* command of the valve
CommandTexts == <<<<"3", "*">>, <<"=">>, <<"X">>>>

\* the steps of the call o, made in the current state
Program(o) ==
    CASE o.name = "read_line" -> read_line
      [] o.name = "command" -> command(CommandTexts[o.a])
      [] o.name = "reset" -> reset
      [] o.name = "init" -> init
      [] o.name = "set_address" -> set_address(o.a)
      [] o.name = "get_address" -> get_address
      [] o.name = "set_plc_standard_mode" -> set_plc_standard_mode
      [] o.name = "set_plc_last_state_restore_mode" -> set_plc_last_state_restore_mode
      [] o.name = "set_baud_rate" -> set_baud_rate(o.a)
      [] o.name = "set_shot_trigger_mode" -> set_shot_trigger_mode
      [] o.name = "set_continuous_trigger_mode" -> set_continuous_trigger_mode
      [] o.name = "set_series_trigger_mode" -> set_series_trigger_mode
      [] o.name = "set_endless_trigger_mode" -> set_endless_trigger_mode
      [] o.name = "stop_triggering" -> stop_triggering
      [] o.name = "single_shot" -> single_shot(o.a, o.b)
      [] o.name = "series_shot" -> series_shot(o.a, o.b)
      [] o.name = "series_shot_stop" -> series_shot_stop
      [] o.name = "load_parameters" -> load_parameters(o.a, o.b)
      [] o.name = "store_parameters" -> store_parameters(o.a, o.b)
      [] o.name = "set_peak_time" -> set_peak_time(o.a)
      [] o.name = "set_open_time" -> set_open_time(o.a)
      [] o.name = "set_cycle_time" -> set_cycle_time(o.a)
      [] o.name = "set_peak_current" -> set_peak_current(o.a)
      [] o.name = "set_shot_count" -> set_shot_count(o.a)

\* the arguments the calls are made with: the limits of each range, the
\* values next to them and the values of tests/hardware/test_fire.py
AddressArgs == {-1, 0, 3, 8, 9}
BaudArgs == {9600, 19200, 38400, 57600, 115200, 230400, 0, 4800}
BoolArgs == {0, 1}
\* (valve, bank): the eight pairs load_parameters accepts, and pairs with
\* a valve outside {0,1} or a bank outside 0..3
BankPairs == {<<0, 0>>, <<0, 1>>, <<0, 2>>, <<0, 3>>,
              <<1, 0>>, <<1, 1>>, <<1, 2>>, <<1, 3>>,
              <<-1, 0>>, <<2, 0>>, <<0, -1>>, <<0, 4>>, <<1, -1>>, <<1, 4>>}
PeakTimeArgs == {9, 10, 400, 65535, 65536}
OpenTimeArgs == {9, 10, 1000, 9999999, 10000000}
CycleTimeArgs == {9, 10, 60000, 9999999, 10000000}
PeakCurrentArgs == {-1, 0, 13, 15, 16}
ShotCountArgs == {-1, 0, 100, 65535, 65536}

SetterArgs(name) ==
    CASE name = "set_peak_time" -> PeakTimeArgs
      [] name = "set_open_time" -> OpenTimeArgs
      [] name = "set_cycle_time" -> CycleTimeArgs
      [] name = "set_peak_current" -> PeakCurrentArgs
      [] name = "set_shot_count" -> ShotCountArgs

Ops ==
    {MkOp(n, 0, 0) : n \in {"read_line", "reset", "init", "get_address",
                            "set_plc_standard_mode",
                            "set_plc_last_state_restore_mode"} \cup TriggerOps}
    \cup {MkOp("set_address", a, 0) : a \in AddressArgs}
    \cup {MkOp("set_baud_rate", a, 0) : a \in BaudArgs}
    \cup {MkOp(n, a, b) : n \in ShotOps, a \in BoolArgs, b \in BoolArgs}
    \cup {MkOp(n, p[1], p[2]) : n \in BankOps, p \in BankPairs}
    \cup UNION {{MkOp(n, a, 0) : a \in SetterArgs(n)} : n \in SetterOps}

\* a method is called: no call is in progress (the session is single-threaded)
Call(o) ==
    /\ todo = <<>>
    /\ todo' = Program(o)
    /\ op' = o
    /\ result' = IF Program(o) = <<>> THEN "ok" ELSE "running"
    /\ addr0' = current_address
    /\ prevScope' = IF result = "ok" THEN Target(op) ELSE -1
    /\ UNCHANGED <<buffer, current_address, line, last_addr>>

----------------------------------------------------------------------------
(* The steps of the call in progress *)

Running(i) == todo # <<>> /\ Head(todo).i = i

\* what is left once the first step is done, and whether the call returns;
\* l is the line the method holds, which is dropped when the method returns
Pop(l) ==
    /\ todo' = Tail(todo)
    /\ result' = IF Tail(todo) = <<>> THEN "ok" ELSE "running"
    /\ line' = IF Tail(todo) = <<>> THEN <<>> ELSE l

IsAddrCmd(d) ==
    Len(d) = 2 /\ d[2] = "*" /\ \E n \in 0..8 : d[1] = DigitChars[n + 1]

AddrOf(d) == CHOOSE n \in 0..8 : d[1] = DigitChars[n + 1]

\* self.port.write(...)
Write ==
    /\ Running("write")
    /\ Pop(line)
    /\ last_addr' = IF IsAddrCmd(Head(todo).data) THEN AddrOf(Head(todo).data)
                    ELSE last_addr
    /\ UNCHANGED <<buffer, current_address, op, addr0, prevScope>>

\* read_line, returning the first line without taking it out of the buffer
ReadKeepAll(k) ==
    /\ Running("read_line")
    /\ k <= Len(rx)
    /\ rx' = SubSeq(rx, k + 1, Len(rx))
    /\ LET b == buffer \o SubSeq(rx, 1, k)
       IN  IF Contains(b, NL)
           THEN /\ buffer' = b
                /\ Pop(Split(b, NL)[1])
           ELSE /\ buffer' = b
                /\ UNCHANGED <<line, todo, result>>
    /\ UNCHANGED <<current_address, op, addr0, prevScope, last_addr>>

\* read_line, returning what it holds when a read times out
ReadGiveUp(k) ==
    /\ Running("read_line")
    /\ k <= Len(rx)
    /\ rx' = SubSeq(rx, k + 1, Len(rx))
    /\ LET b == buffer \o SubSeq(rx, 1, k)
       IN  IF Contains(b, NL)
           THEN LET lines == Split(b, NL)
                IN  /\ buffer' = Join(Tail(lines), NL)
                    /\ Pop(lines[1])
           ELSE IF k = 0 /\ b # <<>>
           THEN /\ buffer' = <<>>
                /\ Pop(b)
           ELSE /\ buffer' = b
                /\ UNCHANGED <<line, todo, result>>
    /\ UNCHANGED <<current_address, op, addr0, prevScope, last_addr>>

\* read_line, keeping of the rest only what follows the second terminator
ReadKeepLast(k) ==
    /\ Running("read_line")
    /\ k <= Len(rx)
    /\ rx' = SubSeq(rx, k + 1, Len(rx))
    /\ LET b == buffer \o SubSeq(rx, 1, k)
       IN  IF Contains(b, NL)
           THEN LET lines == Split(b, NL)
                IN  /\ buffer' = Join(Tail(Tail(lines)), NL)
                    /\ Pop(lines[1])
           ELSE /\ buffer' = b
                /\ UNCHANGED <<line, todo, result>>
    /\ UNCHANGED <<current_address, op, addr0, prevScope, last_addr>>

\* one turn of read_line's loop: port.read() returns the next k bytes (none
\* when it times out), and the first line is returned once there is one
Read(k) ==
    /\ Running("read_line")
    /\ k <= Len(rx)
    /\ rx' = SubSeq(rx, k + 1, Len(rx))
    /\ LET b == buffer \o SubSeq(rx, 1, k)
       IN  IF Contains(b, NL)
           THEN LET lines == Split(b, NL)
                IN  /\ buffer' = Join(Tail(lines), NL)
                    /\ Pop(lines[1])
           ELSE /\ buffer' = b
                /\ UNCHANGED <<line, todo, result>>
    /\ UNCHANGED <<current_address, op, addr0, prevScope, last_addr>>

\* self.current_address = address
Assign ==
    /\ Running("assign")
    /\ current_address' = Head(todo).a
    /\ Pop(line)
    /\ UNCHANGED <<buffer, rx, op, addr0, prevScope, last_addr>>

\* reset's loop, ended by a line that starts with the banner
UntilBannerPrefix ==
    /\ Running("until_banner")
    /\ IF /\ Len(Strip(line)) >= Len(BANNER)
          /\ SubSeq(Strip(line), 1, Len(BANNER)) = BANNER
       THEN Pop(line)
       ELSE /\ todo' = read_line \o todo
            /\ UNCHANGED <<result, line>>
    /\ UNCHANGED <<buffer, current_address, rx, op, addr0, prevScope, last_addr>>

\* reset's loop: if self.read_line().strip() == 'TERMINAL-Mode': break
UntilBanner ==
    /\ Running("until_banner")
    /\ IF Strip(line) = BANNER
       THEN Pop(line)
       ELSE /\ todo' = read_line \o todo
            /\ UNCHANGED <<result, line>>
    /\ UNCHANGED <<buffer, current_address, rx, op, addr0, prevScope, last_addr>>

\* an exception leaves the method, the steps left are not made
Abort ==
    /\ todo' = <<>>
    /\ result' = "error"
    /\ line' = <<>>

\* return int(reply)
ParseInt ==
    /\ Running("int")
    /\ IF IntParses(line) THEN Pop(line) ELSE Abort
    /\ UNCHANGED <<buffer, current_address, rx, op, addr0, prevScope, last_addr>>

\* raise Exception(...), or an assert that fails
RaiseStep ==
    /\ Running("raise")
    /\ Abort
    /\ UNCHANGED <<buffer, current_address, rx, op, addr0, prevScope, last_addr>>

----------------------------------------------------------------------------
(* The observed transport events *)

\* the line read_line returns when its port.read() returns the next k bytes
FirstLine(k) == Split(buffer \o SubSeq(rx, 1, k), NL)[1]

WriteEvent(data) == [k |-> "w", data |-> data]
ReadEvent(ln) == [k |-> "r", data |-> ln]

Writes(l) == SelectSeq(l, LAMBDA e : e.k = "w")
Reads(l) == SelectSeq(l, LAMBDA e : e.k = "r")

RECURSIVE TrailingReads(_)
TrailingReads(l) ==
    IF l = <<>> \/ l[Len(l)].k # "r" THEN 0
    ELSE 1 + TrailingReads(SubSeq(l, 1, Len(l) - 1))

\* every event is kept
LogAll(e) == log' = Append(log, e)

\* the lines read after a write are counted up to MaxReads
LogSome(e) ==
    log' = IF e.k = "r" /\ TrailingReads(log) >= MaxReads THEN log
           ELSE Append(log, e)

----------------------------------------------------------------------------
(* Spec: any calls, with a device that may send anything at any time *)

Ack == <<">", NL>>
BannerLine == BANNER \o <<NL>>

\* what the device sends in one burst: replies at any time, and its banner
\* while a reset waits for it
Bursts == {Ack, <<"3", NL, ">">>, BannerLine}

DeviceSends(f) ==
    /\ Len(rx) <= MaxBacklog
    /\ f = BannerLine => \E i \in 1..Len(todo) : todo[i].i = "until_banner"
    /\ rx' = rx \o f
    /\ UNCHANGED <<buffer, current_address, todo, line, op, result, addr0,
                   prevScope, last_addr, log, sent, step>>

UserCall(o) ==
    /\ Call(o)
    /\ log' = <<>>
    /\ UNCHANGED <<rx, sent, step>>

UserWrite ==
    /\ Write
    /\ LogSome(WriteEvent(Head(todo).data))
    /\ UNCHANGED <<rx, sent, step>>

UserRead(k) ==
    /\ Read(k)
    /\ IF todo' # todo THEN LogSome(ReadEvent(<<>>)) ELSE UNCHANGED log
    /\ UNCHANGED <<sent, step>>

Quiet == UNCHANGED <<log, sent, step>>

UserAssign == Assign /\ Quiet

UserBanner == UntilBanner /\ Quiet

UserParseInt == ParseInt /\ Quiet

UserRaise == RaiseStep /\ Quiet

Init ==
    /\ buffer = <<>>
    /\ current_address = 0
    /\ rx = <<>>
    /\ todo = <<>>
    /\ line = <<>>
    /\ op = NoOp
    /\ result = "none"
    /\ addr0 = 0
    /\ prevScope = -1
    /\ last_addr = -1
    /\ log = <<>>
    /\ sent = <<>>
    /\ step = 0

Next ==
    \/ \E o \in Ops : UserCall(o)
    \/ UserWrite
    \/ \E k \in 0..MaxChunk : UserRead(k)
    \/ UserAssign
    \/ UserBanner
    \/ UserParseInt
    \/ UserRaise
    \/ \E f \in Bursts : DeviceSends(f)

Spec == Init /\ [][Next]_vars

----------------------------------------------------------------------------
(* SpecAddress: set_address called with every address from -2 to 10, in    *)
(* every state of the session these calls lead to                          *)

AddressCalls == {MkOp("set_address", a, 0) : a \in -2..10}

AddressNext ==
    \/ \E o \in AddressCalls : UserCall(o)
    \/ UserWrite
    \/ \E k \in 0..MaxChunk : UserRead(k)
    \/ UserAssign
    \/ UserRaise
    \/ \E f \in Bursts \ {BannerLine} : DeviceSends(f)

SpecAddress == Init /\ [][AddressNext]_vars

----------------------------------------------------------------------------
(* SpecFire: tests/hardware/test_fire.py on a fresh session, with a device *)
(* that answers a reset with lines ending with its banner and a command    *)
(* with one line                                                           *)

Script ==
    <<MkOp("init", 0, 0),
      MkOp("load_parameters", 0, 0),
      MkOp("set_peak_time", 400, 0),
      MkOp("set_open_time", 1000, 0),
      MkOp("set_cycle_time", 60000, 0),
      MkOp("set_peak_current", 13, 0),
      MkOp("set_shot_count", 100, 0),
      MkOp("single_shot", 1, 0)>>

ResetReplies == {BannerLine, <<CR, NL, SP>> \o BANNER \o <<CR, NL>>}

CommandReplies == {Ack, <<">", "3", CR, NL>>}

Replies(data) == IF data = <<DC2, ESC>> THEN ResetReplies ELSE CommandReplies

\* the next statement of the test; an exception would end the test
FireCall ==
    /\ step < Len(Script)
    /\ result # "error"
    /\ Call(Script[step + 1])
    /\ step' = step + 1
    /\ UNCHANGED <<rx, log, sent>>

FireWrite ==
    /\ Write
    /\ LogAll(WriteEvent(Head(todo).data))
    /\ \E r \in Replies(Head(todo).data) :
           /\ rx' = rx \o r
           /\ sent' = sent \o r
    /\ UNCHANGED step

FireRead(k) ==
    /\ Read(k)
    /\ IF todo' # todo THEN LogAll(ReadEvent(FirstLine(k))) ELSE UNCHANGED log
    /\ UNCHANGED <<sent, step>>

FireBanner == UserBanner

FireNext ==
    \/ FireCall
    \/ FireWrite
    \/ \E k \in 0..MaxChunk : FireRead(k)
    \/ FireBanner

SpecFire == Init /\ [][FireNext]_vars

----------------------------------------------------------------------------
(* SpecRead: read_line called again and again on a received stream, the    *)
(* port handing the stream over in chunks of any sizes                     *)

Alphabet == {"a", "b", NL}

Streams == UNION {[1..n -> Alphabet] : n \in 0..MaxLen}

PortEvent(chunk) == [k |-> "p", data |-> chunk]

ReadInit ==
    /\ rx \in Streams
    /\ sent = rx
    /\ buffer = <<>>
    /\ current_address = 0
    /\ todo = <<>>
    /\ line = <<>>
    /\ op = NoOp
    /\ result = "none"
    /\ addr0 = 0
    /\ prevScope = -1
    /\ last_addr = -1
    /\ log = <<>>
    /\ step = 0

ReadCall ==
    /\ Call(MkOp("read_line", 0, 0))
    /\ UNCHANGED <<rx, log, sent, step>>

\* a port.read() that times out with no line buffered leaves no event
ReadChunk(k) ==
    /\ Read(k)
    /\ log' = log
              \o (IF k > 0 \/ todo' # todo
                  THEN <<PortEvent(SubSeq(rx, 1, k))>> ELSE <<>>)
              \o (IF todo' # todo THEN <<ReadEvent(FirstLine(k))>> ELSE <<>>)
    /\ UNCHANGED <<sent, step>>

ReadNext ==
    \/ ReadCall
    \/ \E k \in 0..MaxLen : ReadChunk(k)

SpecRead == ReadInit /\ [][ReadNext]_vars

----------------------------------------------------------------------------
(* What the claims speak of *)

Idle == todo = <<>>

\* the texts written, in order
WriteData(l) == [i \in 1..Len(Writes(l)) |-> Writes(l)[i].data]

AddrWrites(l) == SelectSeq(WriteData(l), IsAddrCmd)

CmdWrites(l) == SelectSeq(WriteData(l), LAMBDA d : ~IsAddrCmd(d))

\* the kinds of the events, in order
Shape(l) == [i \in 1..Len(l) |-> l[i].k]

AddrCmd(n) == <<DigitChars[n + 1], "*">>

SupportedBauds == {9600, 19200, 38400, 57600, 115200, 230400}

\* the documented range of each numeric setter, and its letter
SetterMin(name) ==
    IF name \in {"set_peak_current", "set_shot_count"} THEN 0 ELSE 10

SetterMax(name) ==
    CASE name = "set_peak_time" -> 65535
      [] name = "set_open_time" -> 9999999
      [] name = "set_cycle_time" -> 9999999
      [] name = "set_peak_current" -> 15
      [] name = "set_shot_count" -> 65535

SetterLetter(name) ==
    CASE name = "set_peak_time" -> "A"
      [] name = "set_open_time" -> "B"
      [] name = "set_cycle_time" -> "C"
      [] name = "set_peak_current" -> "D"
      [] name = "set_shot_count" -> "G"

\* the decimal digits of the values the setters are called with, written out
Digits(v) ==
    CASE v = 0 -> <<"0">>
      [] v = 10 -> <<"1", "0">>
      [] v = 13 -> <<"1", "3">>
      [] v = 15 -> <<"1", "5">>
      [] v = 100 -> <<"1", "0", "0">>
      [] v = 400 -> <<"4", "0", "0">>
      [] v = 1000 -> <<"1", "0", "0", "0">>
      [] v = 60000 -> <<"6", "0", "0", "0", "0">>
      [] v = 65535 -> <<"6", "5", "5", "3", "5">>
      [] v = 9999999 -> <<"9", "9", "9", "9", "9", "9", "9">>

\* a call of a validated valve-scoped method with an argument out of range
OutOfRange(o) ==
    \/ o.name \in BankOps /\ o.a \notin {0, 1}
    \/ o.name = "load_parameters" /\ o.b \notin 0..3
    \/ o.name \in SetterOps /\ (o.a < SetterMin(o.name) \/ o.a > SetterMax(o.name))

\* a call of an address-scoped method with arguments the method accepts
ValidScoped(o) ==
    /\ Target(o) # -1
    /\ ~OutOfRange(o)
    /\ o.name = "set_baud_rate" => o.a \in SupportedBauds

----------------------------------------------------------------------------
(* C1: set_address(n) with n in 0..8 writes exactly "n*", reads one reply  *)
(* line and leaves current_address = n whatever the reply is; with n       *)
(* outside 0..8 it fails, writes nothing and leaves current_address as it  *)
(* was.                                                                    *)
C1_SetAddress ==
    op.name = "set_address" =>
        IF op.a \in 0..8
        THEN /\ result # "error"
             /\ WriteData(log) \in {<<>>, <<AddrCmd(op.a)>>}
             /\ current_address \in {addr0, op.a}
             /\ result = "ok" =>
                    /\ Shape(log) = <<"w", "r">>
                    /\ WriteData(log) = <<AddrCmd(op.a)>>
                    /\ current_address = op.a
        ELSE /\ result # "ok"
             /\ log = <<>>
             /\ current_address = addr0

\* set_address(3) has returned from address 5, its reply having come in a
\* burst "3\n>" (a reply that is not ">", and a byte left in the buffer)
C1_Witness ==
    /\ op = MkOp("set_address", 3, 0)
    /\ addr0 = 5
    /\ result = "ok"
    /\ buffer = <<">">>
    /\ current_address = 3

(* C2: between calls, once an addressing command has been written,         *)
(* current_address is the n of the last addressing command written,        *)
(* the "0*" of init included.                                              *)
C2_AddressFollowsWire ==
    (Idle /\ last_addr # -1) => current_address = last_addr

(* C3: set_baud_rate with an unsupported rate fails without writing        *)
(* anything, whatever current_address is, and leaves current_address as it *)
(* was.                                                                    *)
C3_BadBaudWritesNothing ==
    (op.name = "set_baud_rate" /\ op.a \notin SupportedBauds) =>
        /\ result # "ok"
        /\ log = <<>>
        /\ current_address = addr0

C4_Fails ==
    OutOfRange(op) =>
        /\ result # "ok"
        /\ log = <<>>
        /\ current_address = addr0

\* no step of such a call, its first included, changes the buffer
C4_BufferKept == OutOfRange(op') => buffer' = buffer

(* C4: a validated valve-scoped method called with an argument out of      *)
(* range fails before anything is written, no "0*" either, and leaves      *)
(* current_address and the receive buffer as they were.                    *)
C4_InvalidWritesNothing == []C4_Fails /\ [][C4_BufferKept]_vars

\* set_peak_time(9) has failed at address 8 with a partial line buffered
C4_Witness ==
    /\ op = MkOp("set_peak_time", 9, 0)
    /\ result = "error"
    /\ addr0 = 8
    /\ buffer = <<">">>

(* C5: an address-scoped method called with valid arguments writes an      *)
(* addressing command, that of its target, if and only if current_address  *)
(* differed from its target when it was called; called right after a       *)
(* method of the same target, it writes none.                              *)
C5_AddressingElided ==
    ValidScoped(op) =>
        /\ result # "error"
        /\ Len(AddrWrites(log)) <= (IF addr0 # Target(op) THEN 1 ELSE 0)
        /\ result = "ok" =>
               AddrWrites(log) = IF addr0 # Target(op)
                                 THEN <<AddrCmd(Target(op))>> ELSE <<>>
        /\ prevScope = Target(op) => AddrWrites(log) = <<>>

\* a second master-scoped method in a row has returned
C5_Witness ==
    /\ prevScope = ADDRESS_MASTER
    /\ op.name = "set_plc_last_state_restore_mode"
    /\ result = "ok"
    /\ WriteData(log) = <<<<"0", "1", "F">>>>

----------------------------------------------------------------------------
(* C6 *)

FireWire ==
    <<<<DC2, ESC>>,
      <<"0", "*">>,
      <<"0", "n">>,
      <<"0", "n">>,
      <<"4", "0", "0", "A">>,
      <<"1", "0", "0", "0", "B">>,
      <<"6", "0", "0", "0", "0", "C">>,
      <<"1", "3", "D">>,
      <<"1", "0", "0", "G">>,
      <<"Y">>>>

IsPrefix(s, t) == Len(s) <= Len(t) /\ s = SubSeq(t, 1, Len(s))

(* C6: on a fresh session the statements of test_fire write exactly the    *)
(* reset bytes, "0*", "0n", "0n", "400A", "1000B", "60000C", "13D",        *)
(* "100G" and "Y", in this order and nothing else, each after the lines    *)
(* the device sent for the write before it have been read.                 *)
C6_TestFireWire ==
    /\ result # "error"
    /\ current_address = 0
    /\ IsPrefix(WriteData(log), FireWire)
    /\ (step = Len(Script) /\ Idle) => WriteData(log) = FireWire
    /\ \A i \in 2..Len(log) : log[i].k = "w" => log[i - 1].k = "r"
    /\ Running("write") => rx = <<>> /\ buffer = <<>>

\* the test has ended, the reset having read a line before the banner
C6_Witness ==
    /\ step = Len(Script)
    /\ Idle
    /\ result = "ok"
    /\ WriteData(log) = FireWire
    /\ Len(Reads(log)) = 11

----------------------------------------------------------------------------
(* C7 *)

RECURSIVE Flat(_)
Flat(ss) == IF ss = <<>> THEN <<>> ELSE Head(ss) \o Flat(Tail(ss))

\* what the port has handed over, and the lines returned with their terminators
Delivered(l) ==
    LET ps == SelectSeq(l, LAMBDA e : e.k = "p")
    IN  Flat([i \in 1..Len(ps) |-> ps[i].data])

LinesOut(l) == Flat([i \in 1..Len(Reads(l)) |-> Reads(l)[i].data \o <<NL>>])

C7_Conserved ==
    /\ Delivered(log) \o rx = sent
    /\ LinesOut(log) \o buffer = Delivered(log)
    /\ \A i \in 1..Len(Reads(log)) : ~Contains(Reads(log)[i].data, NL)

\* with a whole line buffered, the next port.read() ends the call, whatever
\* it returns
C7_Step ==
    (Running("read_line") /\ Contains(buffer, NL)) =>
        /\ todo' = Tail(todo)
        /\ Len(log') > Len(log)
        /\ log'[Len(log')].k = "r"
        /\ log'[Len(log')].data \o <<NL>> \o buffer'
               = buffer \o SubSeq(rx, 1, Len(rx) - Len(rx'))

(* C7: however the port splits the received stream into reads, the calls   *)
(* of read_line return its lines in order, each without its "\n", no byte  *)
(* lost, repeated or moved, what follows the returned line's terminator    *)
(* staying in the buffer; and a line already buffered is returned by the   *)
(* next call even when its read times out empty.                           *)
C7_ReadLine == []C7_Conserved /\ [][C7_Step]_vars

\* one read delivered two lines and a partial third; the second call
\* returned the second line on a read that timed out
C7_Witness ==
    /\ log = <<PortEvent(<<"a", NL, "b", NL, "a">>), ReadEvent(<<"a">>),
               PortEvent(<<>>), ReadEvent(<<"b">>)>>
    /\ buffer = <<"a">>
    /\ Idle

----------------------------------------------------------------------------
(* C8: the writes and line reads of a public method *)

PublicOps == {"init", "set_address", "get_address"} \cup MasterOps \cup ValveOps

Returned(o) ==
    \/ result = "ok"
    \/ result = "error" /\ o.name = "get_address"

(* C8 as stated: every public method called with valid arguments makes at  *)
(* most one write followed by exactly one line read.                       *)
C8_OneWriteOneRead ==
    (op.name \in PublicOps /\ Returned(op)) =>
        /\ Len(Writes(log)) <= 1
        /\ Len(Reads(log)) = 1

\* the events of init: the reset bytes, n lines, then two exchanges
InitShape(n) == <<"w">> \o [i \in 1..n |-> "r"] \o <<"w", "r", "w", "r">>

(* C8, amended: every write of a public method is followed by a line read  *)
(* before the next write and before the method returns; the method makes   *)
(* one write and one line read when it is set_address, get_address or an   *)
(* address-scoped method whose target is current_address, two writes each  *)
(* followed by one line read when the target differs (the addressing       *)
(* command, then the command), and for init three writes: the reset bytes  *)
(* followed by one or more line reads, then "0*" and "0n" each followed by *)
(* one line read.                                                          *)
C8_Exchanges ==
    op.name \in PublicOps =>
        /\ \A i \in 1..(Len(log) - 1) : log[i].k = "w" => log[i + 1].k = "r"
        /\ Returned(op) =>
               IF op.name = "init"
               THEN \E n \in 1..MaxReads : Shape(log) = InitShape(n)
               ELSE IF Target(op) # -1 /\ addr0 # Target(op)
               THEN Shape(log) = <<"w", "r", "w", "r">>
               ELSE Shape(log) = <<"w", "r">>

\* init has returned, its reset having read a line before the banner
C8_Witness ==
    /\ op.name = "init"
    /\ result = "ok"
    /\ Shape(log) = InitShape(2)

----------------------------------------------------------------------------
(* C9: load_parameters(valve, bank) with valve in {0,1} and bank in 0..3   *)
(* writes as its command "{bank}n" for valve 0 and "{bank+4}n" for valve   *)
(* 1; with any other valve or bank it fails.                               *)
C9_LoadParameters ==
    op.name = "load_parameters" =>
        IF op.a \in {0, 1} /\ op.b \in 0..3
        THEN LET k == IF op.a = 0 THEN op.b ELSE op.b + 4
                 cmd == <<DigitChars[k + 1], "n">>
             IN  /\ result # "error"
                 /\ CmdWrites(log) \in {<<>>, <<cmd>>}
                 /\ result = "ok" => CmdWrites(log) = <<cmd>>
        ELSE /\ result # "ok"
             /\ log = <<>>

\* load_parameters(1, 2) has returned, having written "6n"
C9_Witness ==
    /\ op = MkOp("load_parameters", 1, 2)
    /\ result = "ok"
    /\ CmdWrites(log) = <<<<"6", "n">>>>

(* C10: each numeric setter accepts exactly its documented range, limits   *)
(* included, and writes as its command the decimal digits of the value     *)
(* followed by its letter; a value one below or one above the range fails. *)
C10_Setters ==
    op.name \in SetterOps =>
        IF SetterMin(op.name) <= op.a /\ op.a <= SetterMax(op.name)
        THEN LET cmd == Digits(op.a) \o <<SetterLetter(op.name)>>
             IN  /\ result # "error"
                 /\ CmdWrites(log) \in {<<>>, <<cmd>>}
                 /\ result = "ok" => CmdWrites(log) = <<cmd>>
        ELSE /\ result # "ok"
             /\ log = <<>>

\* set_open_time(9999999) has returned, having written "9999999B"
C10_Witness ==
    /\ op = MkOp("set_open_time", 9999999, 0)
    /\ result = "ok"
    /\ CmdWrites(log) = <<<<"9", "9", "9", "9", "9", "9", "9", "B">>>>

----------------------------------------------------------------------------
(* C11 *)

BaudCmd(rate) ==
    CASE rate = 9600 -> <<"0", "%">>
      [] rate = 19200 -> <<"1", "%">>
      [] rate = 38400 -> <<"2", "%">>
      [] rate = 57600 -> <<"3", "%">>
      [] rate = 115200 -> <<"4", "%">>
      [] rate = 230400 -> <<"5", "%">>

(* C11: for every supported baud rate set_baud_rate writes the mapped      *)
(* command, "0%" for 9600 up to "5%" for 230400, preceded by "8*" if and   *)
(* only if current_address was not 8, and by nothing else.                 *)
C11_BaudCommands ==
    (op.name = "set_baud_rate" /\ op.a \in SupportedBauds) =>
        LET wire == (IF addr0 # 8 THEN <<AddrCmd(8)>> ELSE <<>>)
                    \o <<BaudCmd(op.a)>>
        IN  /\ result # "error"
            /\ IsPrefix(WriteData(log), wire)
            /\ result = "ok" => WriteData(log) = wire

\* set_baud_rate(115200) has returned, called at address 0
C11_Witness ==
    /\ op = MkOp("set_baud_rate", 115200, 0)
    /\ addr0 = 0
    /\ result = "ok"
    /\ WriteData(log) = <<<<"8", "*">>, <<"4", "%">>>>

----------------------------------------------------------------------------
(* C12 *)

ShotCmd(name, v1, v2) ==
    IF name = "single_shot"
    THEN (IF v1 = 1 /\ v2 = 1 THEN <<"V">> ELSE IF v1 = 1 THEN <<"Y">> ELSE <<"Z">>)
    ELSE (IF v1 = 1 /\ v2 = 1 THEN <<"U">> ELSE IF v1 = 1 THEN <<"Q">> ELSE <<"R">>)

(* C12: single_shot writes "V" when both arguments are true, "Y" when only *)
(* v1 is true and "Z" otherwise; series_shot writes "U", "Q", "R" in the   *)
(* same way; so (False, True) and (False, False) give the same command.    *)
C12_ShotCommands ==
    op.name \in ShotOps =>
        /\ result # "error"
        /\ CmdWrites(log) \in {<<>>, <<ShotCmd(op.name, op.a, op.b)>>}
        /\ result = "ok" => CmdWrites(log) = <<ShotCmd(op.name, op.a, op.b)>>

\* series_shot(False, True) has returned, having written "R"
C12_Witness ==
    /\ op = MkOp("series_shot", 0, 1)
    /\ result = "ok"
    /\ CmdWrites(log) = <<<<"R">>>>

----------------------------------------------------------------------------
(* C17: every command store_parameters writes is "{k}N" with k in 0..3     *)
(* for valve 0 and k in 4..7 for valve 1; store_parameters(0, bank) never  *)
(* writes the command of a bank of valve 1.                                *)
C17_StoreBanks ==
    op.name = "store_parameters" =>
        \A i \in 1..Len(CmdWrites(log)) :
            \E k \in (IF op.a = 0 THEN 0..3 ELSE 4..7) :
                CmdWrites(log)[i] = <<DigitChars[k + 1], "N">>

----------------------------------------------------------------------------
(* SpecInit: the sessions of Spec whose first call is init() *)

InitFirst(o) ==
    /\ op = NoOp => o.name = "init"
    /\ UserCall(o)

InitNext ==
    \/ \E o \in Ops : InitFirst(o)
    \/ UserWrite
    \/ \E k \in 0..MaxChunk : UserRead(k)
    \/ UserAssign
    \/ UserBanner
    \/ UserParseInt
    \/ UserRaise
    \/ \E f \in Bursts : DeviceSends(f)

SpecInit == Init /\ [][InitNext]_vars

\* the unit the command about to be written is meant for: the target of the
\* method, the valve for init's "0n"; -1 for addressing commands and the rest
ScopeOfWrite ==
    IF ~Running("write") \/ IsAddrCmd(Head(todo).data) THEN -1
    ELSE IF op.name = "init" /\ Head(todo).data = <<"0", "n">> THEN ADDRESS_VALVE
    ELSE Target(op)

(* C16: in a session that begins with init(), whenever a valve-scoped      *)
(* command is written the last addressing command written is "0*", and     *)
(* whenever a master-scoped command is written it is "8*".                 *)
C16_ScopedWrites ==
    ScopeOfWrite # -1 => last_addr = ScopeOfWrite

----------------------------------------------------------------------------
(* C15 *)

\* the chunks the port has handed over
Chunks(l) == SelectSeq(l, LAMBDA e : e.k = "p")

OneByteReads == \A i \in 1..Len(Chunks(log)) : Len(Chunks(log)[i].data) <= 1

C15_OneByte ==
    (~Running("read_line") /\ OneByteReads) => ~Contains(buffer, NL)

C15_BufferFrame ==
    buffer' # buffer => Running("read_line")

----------------------------------------------------------------------------
(* SpecReadLive: SpecRead with a loop that keeps turning and a port that   *)
(* hands over the bytes it has: a read that changes the state is           *)
(* eventually made while one is possible                                   *)

ReadTurn == \E k \in 0..MaxLen : ReadChunk(k)

SpecReadLive == ReadInit /\ [][ReadNext]_vars /\ WF_vars(ReadTurn)

\* the bytes the read of this step has returned
Chunk == SubSeq(rx, 1, Len(rx) - Len(rx'))

\* read_line returns in a step exactly when the buffer with the bytes just
\* read holds a terminator
C14_Step ==
    Running("read_line") =>
        /\ (todo' = Tail(todo)) <=> Contains(buffer \o Chunk, NL)
        /\ (todo' # Tail(todo)) => todo' = todo /\ buffer' = buffer \o Chunk
        /\ ~Contains(buffer \o rx, NL) => todo' = todo

C14_Live ==
    (Running("read_line") /\ Contains(buffer \o rx, NL)) ~> Idle

(* C14: read_line returns if and only if a line terminator is available:   *)
(* a read that returns no bytes, or bytes that leave the buffer without    *)
(* "\n", never makes it return, so it never returns while the transport    *)
(* delivers no "\n"; and when the transport eventually delivers a "\n",    *)
(* read_line eventually returns.                                           *)
C14_ReadLine == [][C14_Step]_vars /\ C14_Live

\* a read of bytes without terminator has not ended the call, the read that
\* brought the terminator has
C14_Witness ==
    /\ Idle
    /\ log = <<PortEvent(<<"a">>), PortEvent(<<"b", NL>>), ReadEvent(<<"a", "b">>)>>

----------------------------------------------------------------------------
(* SpecReset: reset called again and again, with a device that sends, one  *)
(* burst at a time, its banner, its banner with white space around it,     *)
(* lines that hold the banner among other text, and other lines            *)

BannerPadded == <<CR, NL, SP>> \o BANNER \o <<CR, NL>>

ResetBursts == {BannerLine, BannerPadded, BANNER \o <<"!", NL>>,
                <<">">> \o BANNER \o <<NL>>, Ack}

ResetCall ==
    /\ Call(MkOp("reset", 0, 0))
    /\ log' = <<>>
    /\ UNCHANGED <<rx, sent, step>>

ResetWrite == UserWrite

\* the lines reset reads are kept as they are, up to MaxReads of them
ResetRead(k) ==
    /\ Read(k)
    /\ IF todo' # todo THEN LogSome(ReadEvent(FirstLine(k))) ELSE UNCHANGED log
    /\ UNCHANGED <<sent, step>>

ResetBanner == UserBanner

ResetDeviceSends(f) ==
    /\ rx = <<>>
    /\ rx' = f
    /\ UNCHANGED <<buffer, current_address, todo, line, op, result, addr0,
                   prevScope, last_addr, log, sent, step>>

ResetNext ==
    \/ ResetCall
    \/ ResetWrite
    \/ \E k \in 0..MaxChunk : ResetRead(k)
    \/ ResetBanner
    \/ \E f \in ResetBursts : ResetDeviceSends(f)

SpecReset == Init /\ [][ResetNext]_vars

\* the log holds every line of this call: fewer than MaxReads were read
LogComplete == Len(Reads(log)) < MaxReads

C13_State ==
    op.name = "reset" =>
        /\ result # "error"
        /\ log = <<>> => Running("write")
        /\ log # <<>> => /\ log[1] = WriteEvent(<<DC2, ESC>>)
                         /\ Len(Writes(log)) = 1
        /\ \A i \in 1..(Len(Reads(log)) - 1) : Strip(Reads(log)[i].data) # BANNER
        /\ (result = "ok" /\ LogComplete) =>
               /\ Reads(log) # <<>>
               /\ Strip(Reads(log)[Len(Reads(log))].data) = BANNER

\* the loop ends on a line exactly when the trimmed line is the banner, and
\* reads the next line otherwise; reset returns from nowhere else
C13_Step ==
    /\ (Running("until_banner") /\ todo' # todo) =>
           /\ (todo' = Tail(todo)) <=> (Strip(line) = BANNER)
           /\ (todo' # Tail(todo)) => todo' = read_line \o todo
    /\ (op.name = "reset" /\ result = "running" /\ result' = "ok") =>
           /\ Running("until_banner")
           /\ Strip(line) = BANNER

(* C13: reset writes the two bytes 0x12 0x1B once, before any read, and    *)
(* returns only after read_line has returned a line whose trimmed content  *)
(* is exactly "TERMINAL-Mode"; the lines before it are discarded, a line   *)
(* that only contains the banner does not end the loop, and without such   *)
(* a line reset does not return, whatever else is read.                    *)
C13_Reset == []C13_State /\ [][C13_Step]_vars

\* reset has returned on the banner with white space around it, after a
\* line that starts with the banner and one of white space
C13_Witness ==
    /\ op.name = "reset"
    /\ result = "ok"
    /\ log = <<WriteEvent(<<DC2, ESC>>), ReadEvent(BANNER \o <<"!">>),
               ReadEvent(<<CR>>), ReadEvent(<<SP>> \o BANNER \o <<CR>>)>>

----------------------------------------------------------------------------
(* SpecFrame: the calls of Spec and direct calls of command(text), with    *)
(* the device of Spec                                                      *)

CommandCalls == {MkOp("command", t, 0) : t \in 1..Len(CommandTexts)}

FrameCall(o) == UserCall(o)

FrameNext ==
    \/ \E o \in Ops \cup CommandCalls : FrameCall(o)
    \/ UserWrite
    \/ \E k \in 0..MaxChunk : UserRead(k)
    \/ UserAssign
    \/ UserBanner
    \/ UserParseInt
    \/ UserRaise
    \/ \E f \in Bursts : DeviceSends(f)

SpecFrame == Init /\ [][FrameNext]_vars

\* the calls that make no set_address: those that address no unit, and those
\* whose unit is the one current_address named when they were made
Unaddressing(o) ==
    \/ o.name \in {"reset", "init", "command", "get_address", "read_line"}
    \/ Target(o) # -1 /\ Target(o) = addr0

C18_State ==
    /\ current_address \in 0..8
    /\ Unaddressing(op) => current_address = addr0

\* current_address changes only in the assignment of set_address, to the
\* address set_address was called with
C18_Step ==
    current_address' # current_address =>
        /\ Running("assign")
        /\ current_address' = Head(todo).a
        /\ \/ op.name = "set_address" /\ current_address' = op.a
           \/ Target(op) # -1 /\ Target(op) # addr0 /\ current_address' = Target(op)

(* C18: current_address is changed only by set_address, called directly or *)
(* by the addressing step of a method: reset, init, command (even with the *)
(* text "3*"), get_address (whatever the reply), read_line and every       *)
(* method whose unit already equals current_address leave it unchanged;    *)
(* and current_address is in 0..8 in every reachable state.                *)
C18_Frame == []C18_State /\ [][C18_Step]_vars

\* command("3*") has returned at address 8
C18_Witness ==
    /\ op.name = "command"
    /\ CommandTexts[op.a] = <<"3", "*">>
    /\ result = "ok"
    /\ last_addr = 3
    /\ current_address = 8

----------------------------------------------------------------------------
(* SpecDevice: any calls, with a device that answers a reset with lines    *)
(* ending with its banner and every command with one line that tells the   *)
(* command it answers, and that sends nothing else                         *)

\* the lines before the banner are not themselves the banner
DeviceResetReplies == {BannerLine, BannerPadded, Ack \o BannerLine}

DeviceReplies(data) ==
    IF data = <<DC2, ESC>> THEN DeviceResetReplies
    ELSE IF data = <<"=">> THEN {<<"3", CR, NL>>, <<"?", NL>>}
    ELSE {<<">">> \o data \o <<CR, NL>>, data \o <<NL>>}

DeviceCall(o) == UserCall(o)

\* sent keeps what the device has answered to the last reset
DeviceWrite ==
    /\ Write
    /\ LogAll(WriteEvent(Head(todo).data))
    /\ \E r \in DeviceReplies(Head(todo).data) :
           /\ rx' = rx \o r
           /\ sent' = IF Head(todo).data = <<DC2, ESC>> THEN r ELSE sent
    /\ UNCHANGED step

DeviceRead(k) == FireRead(k)

DeviceNext ==
    \/ \E o \in Ops \cup CommandCalls : DeviceCall(o)
    \/ DeviceWrite
    \/ \E k \in 0..MaxChunk : DeviceRead(k)
    \/ UserAssign
    \/ UserBanner
    \/ UserParseInt
    \/ UserRaise

SpecDevice == Init /\ [][DeviceNext]_vars

IsReset(e) == e.k = "w" /\ e.data = <<DC2, ESC>>

(* C19: with a device that sends one reply line per command and, after a   *)
(* reset, lines ending with its banner and nothing more, for any calls and  *)
(* any chunking every command(text) returns the line the device produced   *)
(* for that text: no reply is shifted, and no line is left over by an      *)
(* earlier call (rx and the buffer are empty whenever a call is made).     *)
C19_RepliesMatch ==
    /\ \A i \in 1..(Len(log) - 1) :
           (log[i].k = "w" /\ ~IsReset(log[i])) =>
               /\ log[i + 1].k = "r"
               /\ log[i + 1].data \o <<NL>> \in DeviceReplies(log[i].data)
    /\ (Idle /\ result # "none" /\ op.name # "read_line") =>
           /\ rx = <<>>
           /\ buffer = <<>>
           /\ log # <<>> => log[Len(log)].k = "r"
    /\ (op.name = "command" /\ result = "ok") =>
           /\ Len(log) = 2
           /\ log[1] = WriteEvent(CommandTexts[op.a])
           /\ log[2].data \o <<NL>> \in DeviceReplies(CommandTexts[op.a])

\* command("X") has returned the reply to "X", the last reset having read a
\* line ">" before the banner
C19_Witness ==
    /\ op.name = "command"
    /\ CommandTexts[op.a] = <<"X">>
    /\ result = "ok"
    /\ sent = Ack \o BannerLine
    /\ log = <<WriteEvent(<<"X">>), ReadEvent(<<">", "X", CR>>)>>

====
